---- MODULE Spec2Model ----
(***************************************************************************)
(* A model of the oslo-policy rule engine: the rule parser (parser.rs),    *)
(* the expression tree (ast.rs), attribute interpolation (request.rs),     *)
(* the built-in checkers (checkers.rs) and the RuleSet with its evaluator  *)
(* (ruleset.rs).  Strings are TLC strings; a character is a string of      *)
(* length one obtained with SubSeq.                                        *)
(***************************************************************************)
EXTENDS Integers, Sequences, FiniteSets, TLC

VARIABLES rules, checkers, written, registered, last

vars == <<rules, checkers, written, registered, last>>

(***************************************************************************)
(* ast.rs: Expression and LeftHandSide, as tagged tuples.                  *)
(***************************************************************************)
Const(val) == <<"Const", val>>

Check(lhs, rhs) == <<"Check", lhs, rhs>>

And(x, y) == <<"And", x, y>>

Or(x, y) == <<"Or", x, y>>

Not(x) == <<"Not", x>>

Literal(s) == <<"Literal", s>>

Identifier(s) == <<"Identifier", s>>

(***************************************************************************)
(* parser.rs: the PEG grammar.  A rule applied at position pos (1-based)   *)
(* either matches, giving the position after the match and a value, or     *)
(* fails.                                                                  *)
(***************************************************************************)
Matched(pos, val) == [ok |-> TRUE, pos |-> pos, val |-> val]

Failed == [ok |-> FALSE, pos |-> 0, val |-> <<>>]

CharAt(s, pos) == IF pos >= 1 /\ pos <= Len(s) THEN SubSeq(s, pos, pos) ELSE ""

\* A string literal of the grammar matches at pos.
Lit(s, pos, lit) ==
    /\ pos + Len(lit) - 1 <= Len(s)
    /\ SubSeq(s, pos, pos + Len(lit) - 1) = lit

Whitespace == {" ", "\t", "\n"}

LhsForbidden == Whitespace \cup {":", "'", "\"", "\\"}

\* The end of the longest run of characters outside `stop` starting at pos.
RECURSIVE RunEnd(_, _, _)
RunEnd(s, pos, stop) ==
    IF pos <= Len(s) /\ CharAt(s, pos) \notin stop
    THEN RunEnd(s, pos + 1, stop)
    ELSE pos

\* A rule _ that takes one whitespace character at most.
skip_ws_one_character(s, pos) ==
    IF pos <= Len(s) /\ CharAt(s, pos) \in Whitespace THEN pos + 1 ELSE pos

\* rule _ = [' ' | '\t' | '\n']*   (always matches; gives the position after)
RECURSIVE skip_ws(_, _)
skip_ws(s, pos) ==
    IF pos <= Len(s) /\ CharAt(s, pos) \in Whitespace
    THEN skip_ws(s, pos + 1)
    ELSE pos

check_lhs_inner(s, pos) ==
    LET end == RunEnd(s, pos, LhsForbidden)
    IN  IF end > pos THEN Matched(end, SubSeq(s, pos, end - 1)) ELSE Failed

check_rhs(s, pos) ==
    LET end == RunEnd(s, pos, Whitespace)
    IN  IF end > pos THEN Matched(end, SubSeq(s, pos, end - 1)) ELSE Failed

\* A quoted literal that runs to its closing quote.
Quoted_to_closing_quote(s, pos, quote) ==
    IF Lit(s, pos, quote) /\ RunEnd(s, pos + 1, {quote}) > pos + 1
                          /\ Lit(s, RunEnd(s, pos + 1, {quote}), quote)
    THEN Matched(RunEnd(s, pos + 1, {quote}) + 1,
                 Literal(SubSeq(s, pos + 1, RunEnd(s, pos + 1, {quote}) - 1)))
    ELSE Failed

Quoted(s, pos, quote) ==
    IF Lit(s, pos, quote)
    THEN LET inner == check_lhs_inner(s, pos + 1)
         IN  IF inner.ok /\ Lit(s, inner.pos, quote)
             THEN Matched(inner.pos + 1, Literal(inner.val))
             ELSE Failed
    ELSE Failed

check_lhs(s, pos) ==
    LET single == Quoted(s, pos, "'")
        double == Quoted(s, pos, "\"")
        bare   == check_lhs_inner(s, pos)
    IN  IF single.ok THEN single
        ELSE IF double.ok THEN double
        ELSE IF bare.ok THEN Matched(bare.pos, Identifier(bare.val))
        ELSE Failed

check(s, pos) ==
    LET l == check_lhs(s, pos)
    IN  IF l.ok /\ Lit(s, l.pos, ":")
        THEN LET r == check_rhs(s, l.pos + 1)
             IN  IF r.ok THEN Matched(r.pos, Check(l.val, r.val)) ELSE Failed
        ELSE Failed

\* The precedence levels of expr_inner: `or` is level 0, `and` level 1,
\* `not` and the atoms level 2.
PrecOr == 0

PrecAnd == 1

PrecNot == 2

\* Helpers on rule results: the ordered choice  r / alt,  a rule followed
\* by `_`, the closing parenthesis after an expression, and the action of
\* the prefix operator.
OrElse(r, alt) == IF r.ok THEN r ELSE alt

ThenWs(s, r) == IF r.ok THEN Matched(skip_ws(s, r.pos), r.val) ELSE Failed

ThenClose(s, e) == IF e.ok /\ Lit(s, e.pos, ")") THEN Matched(e.pos + 1, e.val) ELSE Failed

ThenNot(e) == IF e.ok THEN Matched(e.pos, Not(e.val)) ELSE Failed

RECURSIVE expr(_, _)
RECURSIVE infix_parse(_, _, _)
RECURSIVE infix_loop(_, _, _, _)
RECURSIVE prefix_atom(_, _)
RECURSIVE atom(_, _)
RECURSIVE atom_inner(_, _)

atom_inner(s, pos) ==
    IF Lit(s, pos, "@") THEN Matched(pos + 1, Const(TRUE))
    ELSE IF Lit(s, pos, "!") THEN Matched(pos + 1, Const(FALSE))
    ELSE OrElse(IF Lit(s, pos, "(") THEN ThenClose(s, expr(s, pos + 1)) ELSE Failed,
                check(s, pos))

atom(s, pos) == ThenWs(s, atom_inner(s, skip_ws(s, pos)))

\* The prefix operators and atoms of the precedence climber, in the order
\* of the grammar: "not" e:@ first, then atom().
prefix_atom(s, pos) ==
    OrElse(IF Lit(s, pos, "not") THEN ThenNot(infix_parse(s, pos + 3, PrecNot + 1)) ELSE Failed,
           atom(s, pos))

\* The right operand of the infix operator  x:(@) _ op _ y:@  of level
\* prec, tried after a left operand that ended at pos.
infix_op(s, pos, op, prec, minPrec) ==
    IF prec >= minPrec /\ Lit(s, skip_ws(s, pos), op)
    THEN infix_parse(s, skip_ws(s, skip_ws(s, pos) + Len(op)), prec + 1)
    ELSE Failed

\* The action of the infix operator op on the operands x and y.
InfixAction(op, x, y) == IF op = "or" THEN Or(x, y) ELSE And(x, y)

\* After the right operand y of op: the loop goes on with the new left
\* operand; after no operator: the loop ends with x.
InfixNext(s, pos, minPrec, x, op, y) ==
    IF y.ok THEN infix_loop(s, y.pos, minPrec, InfixAction(op, x, y.val))
    ELSE Matched(pos, x)

infix_loop(s, pos, minPrec, x) ==
    IF infix_op(s, pos, "or", PrecOr, minPrec).ok
    THEN InfixNext(s, pos, minPrec, x, "or", infix_op(s, pos, "or", PrecOr, minPrec))
    ELSE InfixNext(s, pos, minPrec, x, "and", infix_op(s, pos, "and", PrecAnd, minPrec))

InfixStart(s, minPrec, initial) ==
    IF initial.ok THEN infix_loop(s, initial.pos, minPrec, initial.val) ELSE Failed

infix_parse(s, pos, minPrec) == InfixStart(s, minPrec, prefix_atom(s, pos))

expr_inner(s, pos) == infix_parse(s, pos, PrecOr)

expr(s, pos) == ThenWs(s, expr_inner(s, skip_ws(s, pos)))

\* parse_expression: the whole input must be consumed.
ThenEnd(input, e) ==
    IF e.ok /\ e.pos = Len(input) + 1 THEN Matched(e.pos, e.val) ELSE Failed

parse_expression(input) == ThenEnd(input, expr(input, 1))

(***************************************************************************)
(* request.rs: tokens, targets, requests and attribute interpolation.      *)
(* An Option<&str> is a record: Some(x) or None.                           *)
(***************************************************************************)
Some(x) == [some |-> TRUE, val |-> x]

None == [some |-> FALSE, val |-> ""]

\* An attribute map with no entries (an empty HashMap).
NoAttrs == <<>>

\* request::test::Token: the roles and the API attributes of a token.
Token(roles, api_attrs) == [roles |-> roles, api_attrs |-> api_attrs]

get_api_attribute(token, name) ==
    IF name \in DOMAIN token.api_attrs THEN Some(token.api_attrs[name]) ELSE None

has_role(token, role_name) == role_name \in token.roles

\* The two provided targets: the unit value () and a HashMap.
UnitTarget == [unit |-> TRUE, attrs |-> NoAttrs]

MapTarget(attrs) == [unit |-> FALSE, attrs |-> attrs]

get_attribute(target, name) ==
    IF target.unit THEN None
    ELSE IF name \in DOMAIN target.attrs THEN Some(target.attrs[name])
    ELSE None

\* Request::new(token) and Request::new(token).with_target(target).
Request_new(token) == [token |-> token, target |-> UnitTarget]

with_target(req, target) == [req EXCEPT !.target = target]

strip_prefix(s, prefix) ==
    IF Len(s) >= Len(prefix) /\ SubSeq(s, 1, Len(prefix)) = prefix
    THEN Some(SubSeq(s, Len(prefix) + 1, Len(s)))
    ELSE None

strip_suffix(s, suffix) ==
    IF Len(s) >= Len(suffix) /\ SubSeq(s, Len(s) - Len(suffix) + 1, Len(s)) = suffix
    THEN Some(SubSeq(s, 1, Len(s) - Len(suffix)))
    ELSE None

\* The attribute name resolve_target_attr_refs looks up for `input`, or
\* None when the input is returned unchanged.
attr_name_of(input) ==
    LET stripped == strip_prefix(input, "%(")
    IN  IF stripped.some THEN strip_suffix(stripped.val, ")s") ELSE None

resolve_target_attr_refs(input, target) ==
    LET attr_name == attr_name_of(input)
    IN  IF attr_name.some THEN get_attribute(target, attr_name.val) ELSE Some(input)

(***************************************************************************)
(* checkers.rs and ruleset.rs: the checkers and the evaluator.             *)
(*                                                                         *)
(* An evaluation gives a record: `value` is the boolean returned,          *)
(* `events` the set of lookups and checker calls made on the way, and      *)
(* `diverged` says that no value is returned.  evaluate is a function of   *)
(* its arguments alone, so a call of evaluate for a rule name that is      *)
(* already being evaluated (on `stack`) repeats itself without end: the    *)
(* program recurses until its call stack is exhausted.                     *)
(***************************************************************************)
Returned(value, events) == [diverged |-> FALSE, value |-> value, events |-> events]

Diverged(events) == [diverged |-> TRUE, value |-> FALSE, events |-> events]

Event(kind, subject, arg) == <<kind, subject, arg>>

\* The built-in checkers, and a checker supplied by the host program that
\* accepts exactly the right-hand sides in `accepts`.
RuleChecker == [impl |-> "RuleChecker", accepts |-> {}]

RoleChecker == [impl |-> "RoleChecker", accepts |-> {}]

HostChecker(accepts) == [impl |-> "HostChecker", accepts |-> accepts]

RECURSIVE evaluate(_, _, _, _, _)
RECURSIVE evaluate_expr(_, _, _, _, _)
RECURSIVE evaluate_check(_, _, _, _, _, _)
RECURSIVE Checker_check(_, _, _, _, _, _)

\* A variant of the role checker that also accepts an API attribute
\* `role` of the token.
RoleChecker_check_or_attribute(req, rhs) ==
    Returned(has_role(req.token, rhs) \/ get_api_attribute(req.token, "role") = Some(rhs),
             {Event("has_role", rhs, "")})

RoleChecker_check(req, rhs) ==
    Returned(has_role(req.token, rhs), {Event("has_role", rhs, "")})

\* A variant of the rule checker that passes when the rule is not defined.
RuleChecker_check_missing_passes(rs, cs, req, rhs, stack) ==
    IF rhs \notin DOMAIN rs THEN Returned(TRUE, {}) ELSE evaluate(rs, cs, rhs, req, stack)

RuleChecker_check(rs, cs, req, rhs, stack) == evaluate(rs, cs, rhs, req, stack)

Checker_check(checker, rs, cs, req, rhs, stack) ==
    IF checker.impl = "RuleChecker" THEN RuleChecker_check(rs, cs, req, rhs, stack)
    ELSE IF checker.impl = "RoleChecker" THEN RoleChecker_check(req, rhs)
    ELSE Returned(rhs \in checker.accepts, {})

\* The outcome of one step followed, when it returned, by `more` events.
WithEvents(events, r) == [r EXCEPT !.events = events \cup r.events]

\* A variant of evaluate_check in which an API attribute of the token
\* shadows a checker of the same name.
evaluate_check_attribute_first(rs, cs, req, lhs, rhs, stack) ==
    LET attr_name == attr_name_of(rhs)
        resolved  == resolve_target_attr_refs(rhs, req.target)
        looked    == IF attr_name.some
                     THEN {Event("target_attr", attr_name.val, "")}
                     ELSE {}
    IN  IF ~resolved.some THEN Returned(FALSE, looked)
        ELSE IF lhs[1] = "Literal" THEN Returned(lhs[2] = resolved.val, looked)
        ELSE IF get_api_attribute(req.token, lhs[2]).some
             THEN Returned(get_api_attribute(req.token, lhs[2]).val = resolved.val,
                           looked \cup {Event("api_attr", lhs[2], "")})
        ELSE IF lhs[2] \in DOMAIN cs
             THEN WithEvents(looked \cup {Event("checker", lhs[2], resolved.val)},
                             Checker_check(cs[lhs[2]], rs, cs, req, resolved.val, stack))
             ELSE Returned(FALSE, looked \cup {Event("api_attr", lhs[2], "")})

\* A variant of evaluate_check that uses the text of a right-hand side it
\* could not resolve.
evaluate_check_unresolved_verbatim(rs, cs, req, lhs, rhs, stack) ==
    LET attr_name == attr_name_of(rhs)
        resolved  == resolve_target_attr_refs(rhs, req.target)
        text      == IF resolved.some THEN resolved.val ELSE rhs
        looked    == IF attr_name.some
                     THEN {Event("target_attr", attr_name.val, "")}
                     ELSE {}
    IN  IF lhs[1] = "Literal" THEN Returned(lhs[2] = text, looked)
        ELSE IF lhs[2] \in DOMAIN cs
             THEN WithEvents(looked \cup {Event("checker", lhs[2], text)},
                             Checker_check(cs[lhs[2]], rs, cs, req, text, stack))
             ELSE LET result == get_api_attribute(req.token, lhs[2])
                  IN  Returned(IF result.some THEN result.val = text ELSE FALSE,
                               looked \cup {Event("api_attr", lhs[2], "")})

\* A variant of evaluate_check that passes a check on an API attribute the
\* token does not have.
evaluate_check_missing_attribute_passes(rs, cs, req, lhs, rhs, stack) ==
    LET attr_name == attr_name_of(rhs)
        resolved  == resolve_target_attr_refs(rhs, req.target)
        looked    == IF attr_name.some
                     THEN {Event("target_attr", attr_name.val, "")}
                     ELSE {}
    IN  IF ~resolved.some THEN Returned(FALSE, looked)
        ELSE IF lhs[1] = "Literal" THEN Returned(lhs[2] = resolved.val, looked)
        ELSE IF lhs[2] \in DOMAIN cs
             THEN WithEvents(looked \cup {Event("checker", lhs[2], resolved.val)},
                             Checker_check(cs[lhs[2]], rs, cs, req, resolved.val, stack))
             ELSE LET result == get_api_attribute(req.token, lhs[2])
                  IN  Returned(IF result.some THEN result.val = resolved.val ELSE TRUE,
                               looked \cup {Event("api_attr", lhs[2], "")})

evaluate_check(rs, cs, req, lhs, rhs, stack) ==
    LET attr_name == attr_name_of(rhs)
        resolved  == resolve_target_attr_refs(rhs, req.target)
        looked    == IF attr_name.some
                     THEN {Event("target_attr", attr_name.val, "")}
                     ELSE {}
    IN  IF ~resolved.some THEN Returned(FALSE, looked)
        ELSE IF lhs[1] = "Literal" THEN Returned(lhs[2] = resolved.val, looked)
        ELSE IF lhs[2] \in DOMAIN cs
             THEN WithEvents(looked \cup {Event("checker", lhs[2], resolved.val)},
                             Checker_check(cs[lhs[2]], rs, cs, req, resolved.val, stack))
             ELSE LET result == get_api_attribute(req.token, lhs[2])
                  IN  Returned(IF result.some THEN result.val = resolved.val ELSE FALSE,
                               looked \cup {Event("api_attr", lhs[2], "")})

evaluate_expr(rs, cs, req, e, stack) ==
    IF e[1] = "Const" THEN Returned(e[2], {})
    ELSE IF e[1] = "Check" THEN evaluate_check(rs, cs, req, e[2], e[3], stack)
    ELSE IF e[1] = "And"
         THEN LET x == evaluate_expr(rs, cs, req, e[2], stack)
              IN  IF x.diverged \/ ~x.value THEN x
                  ELSE WithEvents(x.events, evaluate_expr(rs, cs, req, e[3], stack))
    ELSE IF e[1] = "Or"
         THEN LET x == evaluate_expr(rs, cs, req, e[2], stack)
              IN  IF x.diverged \/ x.value THEN x
                  ELSE WithEvents(x.events, evaluate_expr(rs, cs, req, e[3], stack))
    ELSE LET x == evaluate_expr(rs, cs, req, e[2], stack)
         IN  IF x.diverged THEN x ELSE Returned(~x.value, x.events)

\* A variant of evaluate that allows what no rule is defined for.
evaluate_default_allow(rs, cs, rule_name, req, stack) ==
    IF rule_name \notin DOMAIN rs THEN Returned(TRUE, {Event("rule", rule_name, "absent")})
    ELSE IF rule_name \in stack THEN Diverged({Event("rule", rule_name, "reentered")})
    ELSE WithEvents({Event("rule", rule_name, "found")},
                    evaluate_expr(rs, cs, req, rs[rule_name], stack \cup {rule_name}))

\* A variant of evaluate with cycle detection: a rule entered again while
\* it is being evaluated is denied.
evaluate_cycle_is_denied(rs, cs, rule_name, req, stack) ==
    IF rule_name \notin DOMAIN rs THEN Returned(FALSE, {Event("rule", rule_name, "absent")})
    ELSE IF rule_name \in stack THEN Returned(FALSE, {Event("rule", rule_name, "reentered")})
    ELSE WithEvents({Event("rule", rule_name, "found")},
                    evaluate_expr(rs, cs, req, rs[rule_name], stack \cup {rule_name}))

evaluate(rs, cs, rule_name, req, stack) ==
    IF rule_name \notin DOMAIN rs THEN Returned(FALSE, {Event("rule", rule_name, "absent")})
    ELSE IF rule_name \in stack THEN Diverged({Event("rule", rule_name, "reentered")})
    ELSE WithEvents({Event("rule", rule_name, "found")},
                    evaluate_expr(rs, cs, req, rs[rule_name], stack \cup {rule_name}))

(***************************************************************************)
(* ruleset.rs: the RuleSet operations.                                     *)
(***************************************************************************)
\* HashMap::insert: binds key k to v, replacing an earlier binding.
Insert(map, k, v) == [x \in (DOMAIN map) \cup {k} |-> IF x = k THEN v ELSE map[x]]

\* A variant of add_checker that keeps an earlier checker of the name.
add_checker_keeps_first(cs, name, checker) ==
    IF name \in DOMAIN cs THEN cs ELSE Insert(cs, name, checker)

add_checker(cs, name, checker) == Insert(cs, name, checker)

\* RuleSet::new(): no rules, the checkers `rule` and `role`.

NewRules == NoAttrs

NewCheckers == add_checker(add_checker(NoAttrs, "rule", RuleChecker), "role", RoleChecker)

\* Result<(), ParseError>: Ok(()) or Err(ParseError {rule_name, ..}).
Ok(rs) == [rules |-> rs, ok |-> TRUE, rule_name |-> ""]

Err(rs, rule_name) == [rules |-> rs, ok |-> FALSE, rule_name |-> rule_name]

\* A variant of add_rule that keeps an earlier expression of the name.
add_rule_keeps_first(rs, name, text) ==
    LET parsed == parse_expression(text)
    IN  IF ~parsed.ok THEN Err(rs, name)
        ELSE IF name \in DOMAIN rs THEN Ok(rs)
        ELSE Ok(Insert(rs, name, parsed.val))

\* add_rule: the rules mapping after the call, and the result.
add_rule(rs, name, text) ==
    LET parsed == parse_expression(text)
    IN  IF parsed.ok THEN Ok(Insert(rs, name, parsed.val)) ELSE Err(rs, name)

\* add_rules: add_rule for each entry of m in the order the HashMap yields
\* them (any order), returning from the first error.
RECURSIVE add_rules_from(_, _, _, _)
add_rules_from(rs, m, order, i) ==
    IF i > Len(order) THEN Ok(rs)
    ELSE LET r == add_rule(rs, order[i], m[order[i]])
         IN  IF r.ok THEN add_rules_from(r.rules, m, order, i + 1) ELSE r

\* A variant of add_rules that undoes the entries added before an error.
add_rules_atomic(rs, m, order) ==
    LET r == add_rules_from(rs, m, order, 1)
    IN  IF r.ok THEN r ELSE Err(rs, r.rule_name)

add_rules(rs, m, order) == add_rules_from(rs, m, order, 1)

(***************************************************************************)
(* The inputs the operations are called with.                              *)
(***************************************************************************)
RuleNames == {"a", "b"}

GoodTexts == { "role:admin", "rule:b", "rule:%(t)s" }

BadTexts == { "", "'foo bar':x" }

Texts == GoodTexts \cup BadTexts

\* The mappings add_rules is called with.
BatchTexts == { "rule:b", "" }

Batches == UNION { [names -> BatchTexts] : names \in SUBSET RuleNames }

\* The orders in which a HashMap with the keys S can be iterated.
Orders(S) ==
    { o \in [1..Cardinality(S) -> S] : \A i, j \in 1..Cardinality(S) : o[i] = o[j] => i = j }

\* A checker of the host program, and the add_checker calls made.
TheHostChecker == HostChecker({"x"})

CheckerInputs ==
    { <<"rule", TheHostChecker>>, <<"rule", RuleChecker>>,
      <<"role", TheHostChecker>>, <<"role", RoleChecker>>,
      <<"did", TheHostChecker>> }

AdminToken == Token({"admin"}, "did" :> "x")

PlainToken == Token({}, NoAttrs)

RoleAttrToken == Token({}, "role" :> "admin")

Tokens == { AdminToken, PlainToken, RoleAttrToken }

Targets ==
    { UnitTarget, MapTarget("t" :> "x"), MapTarget("t" :> "b"), MapTarget("t" :> "admin") }

MakeRequest(token, target) ==
    IF target.unit THEN Request_new(token) ELSE with_target(Request_new(token), target)

Requests == { MakeRequest(token, target) : token \in Tokens, target \in Targets }

\* The requests of the specification Spec.
FewRequests ==
    { MakeRequest(AdminToken, UnitTarget), MakeRequest(PlainToken, MapTarget("t" :> "b")),
      MakeRequest(AdminToken, MapTarget("t" :> "b")) }

\* The policies of the specification SpecEval: whole rule files, each
\* loaded with one add_rules call.
Policies ==
    { "a" :> "role:admin",
      "a" :> "not role:admin",
      "a" :> "role:%(t)s",
      "a" :> "did:%(t)s",
      "a" :> "'x':%(t)s",
      "a" :> "role:admin or did:%(t)s",
      "a" :> "( role:admin or rule:a ) and !",
      ("a" :> "rule:b") @@ ("b" :> "role:admin"),
      ("a" :> "rule:%(t)s") @@ ("b" :> "did:x") }

(***************************************************************************)
(* The state machine: a RuleSet and the calls made on it.  `written` and   *)
(* `registered` record the history of the calls: the text of the latest    *)
(* add_rule that parsed, and the checker of the latest add_checker, for    *)
(* each name.  `last` records the latest call and what it returned.        *)
(***************************************************************************)
Init ==
    /\ rules = NewRules
    /\ checkers = NewCheckers
    /\ written = NoAttrs
    /\ registered = ("rule" :> RuleChecker) @@ ("role" :> RoleChecker)
    /\ last = [op |-> "new"]

AddChecker ==
    \E input \in CheckerInputs :
        /\ checkers' = add_checker(checkers, input[1], input[2])
        /\ registered' = (input[1] :> input[2]) @@ registered
        /\ last' = [op |-> "add_checker", name |-> input[1], checker |-> input[2]]
        /\ UNCHANGED <<rules, written>>

AddRule ==
    \E name \in RuleNames, text \in Texts :
        LET r == add_rule(rules, name, text)
        IN  /\ rules' = r.rules
            /\ written' = IF parse_expression(text).ok
                          THEN (name :> text) @@ written
                          ELSE written
            /\ last' = [op |-> "add_rule", name |-> name, text |-> text,
                        ok |-> r.ok, rule_name |-> r.rule_name]
            /\ UNCHANGED <<checkers, registered>>

\* The history after add_rule was called for order[i], order[i+1], ... until
\* a text failed to parse.
RECURSIVE WrittenFrom(_, _, _, _)
WrittenFrom(w, m, order, i) ==
    IF i > Len(order) \/ ~parse_expression(m[order[i]]).ok THEN w
    ELSE WrittenFrom((order[i] :> m[order[i]]) @@ w, m, order, i + 1)

\* add_rules(m), the HashMap m yielding its entries in the order `order`.
CallAddRules(m, order) ==
    LET r == add_rules(rules, m, order)
    IN  /\ rules' = r.rules
        /\ written' = WrittenFrom(written, m, order, 1)
        /\ last' = [op |-> "add_rules", m |-> m, order |-> order,
                    ok |-> r.ok, rule_name |-> r.rule_name]
        /\ UNCHANGED <<checkers, registered>>

AddRules == \E m \in Batches : \E order \in Orders(DOMAIN m) : CallAddRules(m, order)

CallEvaluate(rule_name, req) ==
    /\ last' = [op |-> "evaluate", rule_name |-> rule_name, req |-> req,
                ret |-> evaluate(rules, checkers, rule_name, req, {})]
    /\ UNCHANGED <<rules, checkers, written, registered>>

Evaluate == \E rule_name \in RuleNames, req \in FewRequests : CallEvaluate(rule_name, req)

Next == AddChecker \/ AddRule \/ AddRules \/ Evaluate

\* Any sequence of add_checker, add_rule, add_rules and evaluate calls on a
\* fresh RuleSet.
Spec == Init /\ [][Next]_vars

\* A policy is loaded once into the fresh RuleSet, which is then evaluated
\* while checkers are registered.
LoadPolicy ==
    /\ DOMAIN rules = {}
    /\ \E m \in Policies : \E order \in Orders(DOMAIN m) : CallAddRules(m, order)

EvaluateLoaded == \E rule_name \in RuleNames, req \in Requests : CallEvaluate(rule_name, req)

NextEval == AddChecker \/ LoadPolicy \/ EvaluateLoaded

SpecEval == Init /\ [][NextEval]_vars

(***************************************************************************)
(* Properties.                                                             *)
(***************************************************************************)
\* What a rule name is bound to in a rules mapping.
Binding(rs, name) == IF name \in DOMAIN rs THEN <<"bound", rs[name]>> ELSE <<"unbound">>

\* The value an evaluation returned, or that it returned none.
Outcome(ret) == IF ret.diverged THEN "none" ELSE IF ret.value THEN "true" ELSE "false"

\* C1: evaluate of a rule name under which no rule is stored returns false
\* (it returns, and the value is false), for every rule set reached by
\* add_rule, add_rules and add_checker calls and every request.
C1_UndefinedRuleIsDenied ==
    (last.op = "evaluate" /\ last.rule_name \notin DOMAIN rules)
        => Outcome(last.ret) = "false"

C1_Witness ==
    /\ last.op = "evaluate"
    /\ last.rule_name \notin DOMAIN rules
    /\ DOMAIN rules # {}
    /\ "did" \in DOMAIN checkers
    /\ Outcome(last.ret) = "false"

\* C7: every rule name is bound to the parse of the text of the latest
\* add_rule for it that parsed, and unbound if there was none; an add_rule
\* whose text does not parse returns an error naming the rule and leaves
\* the rules mapping as it was; add_checker and evaluate leave it as it was.
C7_RulesAreLatestParsedTexts ==
    /\ DOMAIN rules = DOMAIN written
    /\ \A name \in DOMAIN rules : rules[name] = parse_expression(written[name]).val

C7_Step ==
    /\ last'.op = "add_rule" =>
          /\ last'.ok = parse_expression(last'.text).ok
          /\ last'.ok => /\ Binding(rules', last'.name)
                               = <<"bound", parse_expression(last'.text).val>>
                         /\ \A n \in RuleNames \ {last'.name} :
                               Binding(rules', n) = Binding(rules, n)
          /\ ~last'.ok => /\ last'.rule_name = last'.name
                          /\ rules' = rules
    /\ last'.op \in {"add_checker", "evaluate"} => rules' = rules

C7_AddRule == []C7_RulesAreLatestParsedTexts /\ [][C7_Step]_vars

C7_Witness ==
    /\ last.op = "add_rule"
    /\ ~last.ok
    /\ last.name \in DOMAIN rules
    /\ written[last.name] # last.text

\* C8: add_rules(m) returns Ok iff every text of m parses, and then every
\* name of m is bound to the parse of its text.  An error names an entry of
\* m whose text does not parse; that name and the entries after it in the
\* iteration keep their bindings, the entries before it are bound to the
\* parse of their texts, and names outside m keep their bindings.
PositionIn(order, name) == CHOOSE i \in 1..Len(order) : order[i] = name

C8_Step ==
    last'.op = "add_rules" =>
        LET m == last'.m
            order == last'.order
        IN  /\ last'.ok = (\A n \in DOMAIN m : parse_expression(m[n]).ok)
            /\ last'.ok => \A n \in DOMAIN m :
                   Binding(rules', n) = <<"bound", parse_expression(m[n]).val>>
            /\ ~last'.ok =>
                   /\ last'.rule_name \in DOMAIN m
                   /\ ~parse_expression(m[last'.rule_name]).ok
                   /\ \A i \in 1..Len(order) :
                        IF i < PositionIn(order, last'.rule_name)
                        THEN Binding(rules', order[i])
                                = <<"bound", parse_expression(m[order[i]]).val>>
                        ELSE Binding(rules', order[i]) = Binding(rules, order[i])
            /\ \A n \in RuleNames \ DOMAIN m : Binding(rules', n) = Binding(rules, n)
            /\ \A n \in DOMAIN m :
                   \/ Binding(rules', n) = Binding(rules, n)
                   \/ Binding(rules', n) = <<"bound", parse_expression(m[n]).val>>

C8_AddRules == [][C8_Step]_vars

C8_Witness ==
    /\ last.op = "add_rules"
    /\ ~last.ok
    /\ Len(last.order) = 2
    /\ last.rule_name = last.order[2]
    /\ Binding(rules, last.order[1]) = <<"bound", parse_expression(last.m[last.order[1]]).val>>
    /\ last.order[2] \notin DOMAIN rules

\* The latest call was evaluate of a stored rule that is one check.
LastIsCheck ==
    /\ last.op = "evaluate"
    /\ last.rule_name \in DOMAIN rules
    /\ rules[last.rule_name][1] = "Check"

LastLhs == rules[last.rule_name][2]

LastRhs == rules[last.rule_name][3]

LastResolved == resolve_target_attr_refs(LastRhs, last.req.target)

\* The rules mapping built from the latest parsed text of each name alone.
RulesOf(texts) == [name \in DOMAIN texts |-> parse_expression(texts[name]).val]

\* C5: with the built-in rule checker under `rule`, a check rule:X whose
\* right-hand side resolves to X' evaluates to what evaluate(X', request)
\* gives on the same rule set and request, and to false if no rule X' is
\* stored; the result is that of the mapping of latest texts, whatever the
\* order of the calls that built it.
C5_RuleCheckIsEvaluate ==
    (/\ LastIsCheck
     /\ LastLhs = Identifier("rule")
     /\ checkers["rule"] = RuleChecker
     /\ LastResolved.some)
        => /\ Outcome(last.ret)
                = Outcome(evaluate(rules, checkers, LastResolved.val, last.req, {}))
           /\ LastResolved.val \notin DOMAIN rules => Outcome(last.ret) = "false"
           /\ Outcome(last.ret)
                = Outcome(evaluate(RulesOf(written), checkers, last.rule_name, last.req, {}))

C5_Witness ==
    /\ LastIsCheck
    /\ LastLhs = Identifier("rule")
    /\ checkers["rule"] = RuleChecker
    /\ LastResolved.some
    /\ LastResolved.val \in DOMAIN rules
    /\ LastResolved.val # last.rule_name
    /\ Outcome(last.ret) = "true"

\* The events of the kinds in `kinds` among `events`.
EventsOf(events, kinds) == { e \in events : e[1] \in kinds }

LastToken == last.req.token

\* What the checker c returns for the resolved right-hand side r.
CheckerSays(c, r) ==
    IF c.impl = "RoleChecker" THEN (IF r \in LastToken.roles THEN "true" ELSE "false")
    ELSE IF c.impl = "RuleChecker"
         THEN Outcome(evaluate(rules, checkers, r, last.req, {}))
    ELSE (IF r \in c.accepts THEN "true" ELSE "false")

\* What the API attribute lookup gives for the name n and the resolved r.
AttributeSays(n, r) ==
    IF n \in DOMAIN LastToken.api_attrs /\ LastToken.api_attrs[n] = r THEN "true" ELSE "false"

\* C2: with the right-hand side resolved to r, a check with a Literal(s) is
\* s = r and consults neither a checker nor the token; a check with an
\* Identifier(n) under which a checker is registered is what that checker
\* returns, and the API attribute n is not consulted; a check with an
\* Identifier(n) under which no checker is registered is true iff the token
\* has an API attribute n with the value r.
C2_CheckIsDecidedByLhs ==
    (LastIsCheck /\ LastResolved.some) =>
        LET r == LastResolved.val
            n == LastLhs[2]
        IN  /\ LastLhs[1] = "Literal" =>
                 /\ Outcome(last.ret) = (IF n = r THEN "true" ELSE "false")
                 /\ EventsOf(last.ret.events, {"checker", "api_attr", "has_role"}) = {}
            /\ (LastLhs[1] = "Identifier" /\ n \in DOMAIN checkers) =>
                 /\ Outcome(last.ret) = CheckerSays(checkers[n], r)
                 /\ Event("checker", n, r) \in last.ret.events
                 /\ Event("api_attr", n, "") \notin last.ret.events
            /\ (LastLhs[1] = "Identifier" /\ n \notin DOMAIN checkers) =>
                 /\ Outcome(last.ret) = AttributeSays(n, r)
                 /\ EventsOf(last.ret.events, {"checker"}) = {}

C2_Witness ==
    /\ LastIsCheck
    /\ LastResolved.some
    /\ LastLhs[1] = "Identifier"
    /\ LastLhs[2] \in DOMAIN checkers
    /\ Outcome(last.ret) # AttributeSays(LastLhs[2], LastResolved.val)

\* C3: a check whose right-hand side is an interpolation of a target
\* attribute that does not exist is false, whatever its left-hand side,
\* and neither a checker nor the token is consulted for it.
C3_MissingTargetAttributeFails ==
    (LastIsCheck /\ attr_name_of(LastRhs).some /\ ~LastResolved.some) =>
        /\ Outcome(last.ret) = "false"
        /\ EventsOf(last.ret.events, {"checker", "api_attr", "has_role"}) = {}

C3_Witness ==
    /\ LastIsCheck
    /\ attr_name_of(LastRhs).some
    /\ last.req.target.unit
    /\ LastLhs[1] = "Identifier"
    /\ LastLhs[2] \in DOMAIN checkers
    /\ checkers[LastLhs[2]] = TheHostChecker
    /\ Outcome(last.ret) = "false"

\* C6: with the built-in role checker under `role`, a check role:R is true
\* iff the token has the role the right-hand side resolves to; the token's
\* API attributes and the stored rules make no difference.
C6_RoleCheckIsHasRole ==
    (LastIsCheck /\ LastLhs = Identifier("role") /\ checkers["role"] = RoleChecker) =>
        /\ Outcome(last.ret)
             = (IF LastResolved.some /\ LastResolved.val \in LastToken.roles
                THEN "true" ELSE "false")
        /\ EventsOf(last.ret.events, {"api_attr"}) = {}
        /\ Outcome(last.ret)
             = Outcome(evaluate(rules, checkers, last.rule_name,
                                [last.req EXCEPT !.token.api_attrs = NoAttrs], {}))
        /\ Outcome(last.ret)
             = Outcome(evaluate_check(NewRules, checkers, last.req, LastLhs, LastRhs, {}))

C6_Witness ==
    /\ LastIsCheck
    /\ LastLhs = Identifier("role")
    /\ checkers["role"] = RoleChecker
    /\ LastResolved.some
    /\ AttributeSays("role", LastResolved.val) = "true"
    /\ Outcome(last.ret) = "false"

\* C9: a fresh RuleSet has the checkers `rule` and `role` and no rules;
\* each checker name resolves to the checker of the latest add_checker for
\* it, the built-in names included, and a check with that name is decided
\* by that checker; a name never registered is looked up as an API
\* attribute.
C9_LatestCheckerWins ==
    /\ last.op = "new" =>
          /\ DOMAIN checkers = {"rule", "role"}
          /\ checkers["rule"] = RuleChecker
          /\ checkers["role"] = RoleChecker
          /\ DOMAIN rules = {}
    /\ DOMAIN checkers = DOMAIN registered
    /\ \A n \in DOMAIN registered : checkers[n] = registered[n]
    /\ last.op = "add_checker" => checkers[last.name] = last.checker
    /\ (LastIsCheck /\ LastResolved.some /\ LastLhs[1] = "Identifier") =>
          IF LastLhs[2] \in DOMAIN registered
          THEN Outcome(last.ret) = CheckerSays(registered[LastLhs[2]], LastResolved.val)
          ELSE Outcome(last.ret) = AttributeSays(LastLhs[2], LastResolved.val)

C9_Witness ==
    /\ LastIsCheck
    /\ LastResolved.some
    /\ LastLhs = Identifier("rule")
    /\ registered["rule"] = TheHostChecker
    /\ Outcome(last.ret) # CheckerSays(RuleChecker, LastResolved.val)

\* A map without the key k, and a token without a role.
Without(map, k) == [x \in (DOMAIN map) \ {k} |-> map[x]]

\* The requests obtained from req by removing one API attribute of the
\* token, one role of the token, or one attribute of the target.
RequestsWithLess(req) ==
    { [req EXCEPT !.token.api_attrs = Without(req.token.api_attrs, k)] :
        k \in DOMAIN req.token.api_attrs }
    \cup { [req EXCEPT !.token.roles = req.token.roles \ {role}] : role \in req.token.roles }
    \cup { [req EXCEPT !.target.attrs = Without(req.target.attrs, k)] :
             k \in DOMAIN req.target.attrs }

\* The rule sets obtained from rs by removing one rule other than `kept`.
RulesWithLess(rs, kept) == { Without(rs, name) : name \in (DOMAIN rs) \ {kept} }

\* The outcomes of the latest evaluation repeated with one piece of data,
\* or one rule other than the evaluated one, removed.
OutcomesWithLess ==
    { Outcome(evaluate(rules, checkers, last.rule_name, req, {})) :
        req \in RequestsWithLess(last.req) }
    \cup { Outcome(evaluate(rs, checkers, last.rule_name, last.req, {})) :
             rs \in RulesWithLess(rules, last.rule_name) }

RECURSIVE HasNot(_)
HasNot(e) ==
    IF e[1] = "Not" THEN TRUE
    ELSE IF e[1] \in {"And", "Or"} THEN HasNot(e[2]) \/ HasNot(e[3])
    ELSE FALSE

\* C10 as stated: with the built-in checkers only, an evaluation that
\* returned false still returns false after one API attribute, target
\* attribute, role or other rule is removed.
C10_AsStated ==
    (last.op = "evaluate" /\ checkers = NewCheckers /\ Outcome(last.ret) = "false")
        => OutcomesWithLess \subseteq {"false"}

\* C10, amended: with the built-in checkers only and no `not` in a stored
\* rule, an evaluation that returned false does not return true after one
\* API attribute, target attribute, role or other rule is removed.
C10_RemovalNeverAllows ==
    (/\ last.op = "evaluate"
     /\ checkers = NewCheckers
     /\ \A name \in DOMAIN rules : ~HasNot(rules[name])
     /\ Outcome(last.ret) = "false")
        => "true" \notin OutcomesWithLess

C10_Witness ==
    /\ last.op = "evaluate"
    /\ checkers = NewCheckers
    /\ \A name \in DOMAIN rules : ~HasNot(rules[name])
    /\ Outcome(last.ret) = "false"
    /\ "none" \in OutcomesWithLess

(***************************************************************************)
(* resolve_target_attr_refs on its own: the inputs are drawn by the        *)
(* initial state, and one step applies the function.                       *)
(***************************************************************************)
RhsAlphabet == {"%", "(", ")", "s", "a"}

MaxLen == 4

RECURSIVE StringsUpTo(_)
StringsUpTo(n) ==
    IF n = 0 THEN {""}
    ELSE StringsUpTo(n - 1) \cup { s \o c : s \in StringsUpTo(n - 1), c \in RhsAlphabet }

RhsTexts ==
    StringsUpTo(MaxLen)
    \cup { "%(a)s", "%(b)s", "x%(a)s", "%(a)sx", "%(a)s-%(b)s", "%(a)s%(b)s", "admin" }

ResolveTargets ==
    { UnitTarget, MapTarget("a" :> "x"), MapTarget("a" :> "%(a)s"),
      MapTarget(("a" :> "x") @@ ("b" :> "y")), MapTarget("a)s-%(b" :> "z") }

InitResolve ==
    /\ rules = NewRules
    /\ checkers = NewCheckers
    /\ written = NoAttrs
    /\ registered = ("rule" :> RuleChecker) @@ ("role" :> RoleChecker)
    /\ last \in { [op |-> "input", input |-> input, target |-> target] :
                    input \in RhsTexts, target \in ResolveTargets }

Resolve ==
    /\ last.op = "input"
    /\ last' = [op |-> "resolve", input |-> last.input, target |-> last.target,
                looked |-> attr_name_of(last.input),
                out |-> resolve_target_attr_refs(last.input, last.target)]
    /\ UNCHANGED <<rules, checkers, written, registered>>

NextResolve == Resolve

SpecResolve == InitResolve /\ [][NextResolve]_vars

\* The number of places of s at which pat occurs.
Occurrences(s, pat) == Cardinality({ i \in 1..Len(s) : Lit(s, i, pat) })

\* s is one interpolation %(attribute_name)s and nothing else.
IsInterpolation(s) ==
    /\ Len(s) >= 4
    /\ Lit(s, 1, "%(")
    /\ Lit(s, Len(s) - 1, ")s")
    /\ Occurrences(s, "%(") = 1
    /\ Occurrences(s, ")s") = 1

\* C4: for a text that is one interpolation %(attribute_name)s,
\* resolve_target_attr_refs gives the target's value of attribute_name as
\* it is, or none if the target lacks it; every other text, such as one
\* with two %(...)s groups, is returned as it is and no target attribute is
\* looked up.
C4_AsStated ==
    last.op = "resolve" =>
        IF IsInterpolation(last.input)
        THEN /\ last.looked = Some(SubSeq(last.input, 3, Len(last.input) - 2))
             /\ last.out = get_attribute(last.target, SubSeq(last.input, 3, Len(last.input) - 2))
        ELSE /\ last.out = Some(last.input)
             /\ ~last.looked.some

(***************************************************************************)
(* parse_expression on its own: the initial state draws a rule text, one   *)
(* step parses it, and one more step hands it to add_rule on the new       *)
(* RuleSet.  A text is drawn with the parts it was written from.           *)
(***************************************************************************)
\* Left- and right-hand sides of checks: lhs_chars and rhs of the grammar.
LhsSamples == { "a", "r", "nota", "not", "note_id", "@", "!a", "(a", "(@)", "%" }

RhsSamples == { "x", "b)", "c:d", "x:", "'q'", "@" }

Quotes == { "", "'", "\"" }

CheckText(quote, lhs, rhs) == quote \o lhs \o quote \o ":" \o rhs

CheckInputs ==
    { [kind |-> "check", text |-> CheckText(q, l, r), parts |-> <<q, l, r>>] :
        q \in Quotes, l \in LhsSamples, r \in RhsSamples }

\* Atoms of the grammar: the constants, checks with an identifier and with
\* a literal, and a check whose identifier begins with the letters of an
\* operator.
AtomTexts == { "@", "!", "r:x", "'l':y", "note:b" }

\* The expression of an atom text: rule atom applied to the text alone.
AtomAst(text) == atom(text, 1).val

\* The texts of the operator combinations of three atoms.
FormNames ==
    { "a and b or c", "(a and b) or c", "a and (b or c)", "a or b and c",
      "not a and b", "a and not b or c", "a or b or c", "a and b and c" }

FormText(form, a, b, c) ==
    CASE form = "a and b or c"     -> a \o " and " \o b \o " or " \o c
      [] form = "(a and b) or c"   -> "(" \o a \o " and " \o b \o ") or " \o c
      [] form = "a and (b or c)"   -> a \o " and (" \o b \o " or " \o c \o ")"
      [] form = "a or b and c"     -> a \o " or " \o b \o " and " \o c
      [] form = "not a and b"      -> "not " \o a \o " and " \o b
      [] form = "a and not b or c" -> a \o " and not " \o b \o " or " \o c
      [] form = "a or b or c"      -> a \o " or " \o b \o " or " \o c
      [] form = "a and b and c"    -> a \o " and " \o b \o " and " \o c

PrecedenceInputs ==
    { [kind |-> "form", text |-> FormText(f, a, b, c), parts |-> <<f, a, b, c>>] :
        f \in FormNames, a \in AtomTexts, b \in AtomTexts, c \in AtomTexts }

\* Rule texts in three pieces: the middle piece is a sub-expression that
\* parentheses may be put around without changing the grouping (the whole
\* rule when the other pieces are empty).
WrapSubjects ==
    { <<"", s, "">> : s \in { "@", "!", "r:x", "'l':y", "not @", "not r:x", "@ and !",
                               "@ or r:x", "r:x and @", "not r:x and @ or !",
                               "@ and ! or r:x", "( @ )", "( r:x or ! ) and @" } }
    \cup { <<"", "@", " and ! or @">>, <<"@ and ", "!", " or @">>,
           <<"@ and ! or ", "@", "">>, <<"", "@ and !", " or @">>,
           <<"not ", "@", " and ! or @">>, <<"", "not @", " and ! or @">>,
           <<"@ and not ", "!", " or @">>, <<"@ and ! or ", "not @", "">>,
           <<"r:x and ", "a:b", " or @">>, <<"", "r:x and a:b", " or @">>,
           <<"@ or ", "r:x and a:b", "">>, <<"not ", "r:x", " and @">> }

\* Parentheses around a piece, with whitespace inside them or without.
WrapStyles == { "spaced", "tight" }

Wrap(style, s) == IF style = "spaced" THEN "( " \o s \o " )" ELSE "(" \o s \o ")"

WrapInputs ==
    { [kind |-> "wrap", text |-> w[1] \o Wrap(style, w[2]) \o w[3],
       parts |-> <<style, w[1], w[2], w[3]>>] :
        style \in WrapStyles, w \in WrapSubjects }

\* Rule texts with places between two tokens marked by "_".
Skeletons ==
    { "@_and_!", "@_or_!", "not_@", "r:x_and_@", "@_and_r:x", "r:x_or_'l':y",
      "not_r:x", "(_@_)", "(_r:x )", "(_@_or_!_)_and_r:x", "@_and_not_(_!_or_r:x )",
      "not_note:b", "not_(_not_@_)", "r:x_and @", "r:x and_@" }

\* Runs of whitespace: none, one character, several.
Gaps == { "", " ", "  ", "\t", "\n", " \n\t" }

Margins == { "", " ", "\n\t " }

\* The text of a skeleton with the run gap at each marked place.
RECURSIVE Fill(_, _)
Fill(skeleton, gap) ==
    IF skeleton = "" THEN ""
    ELSE (IF CharAt(skeleton, 1) = "_" THEN gap ELSE CharAt(skeleton, 1))
         \o Fill(SubSeq(skeleton, 2, Len(skeleton)), gap)

WhitespaceInputs ==
    { [kind |-> "ws", text |-> lead \o Fill(sk, to) \o trail,
       parts |-> <<sk, from, to, lead, trail>>] :
        sk \in Skeletons, from \in Gaps, to \in Gaps, lead \in Margins, trail \in Margins }

\* Quoted literals with a whitespace character or a backslash in them.
BadLiterals ==
    { "foo bar", "foo\tbar", "foo\nbar", " foo", "foo ", " ",
      "foo\\bar", "foo\\nbar", "foo\\\\bar", "foo\\\"bar", "foo\\'bar", "\\" }

\* Rule texts with a check in them, the check marked by "_".
Contexts == { "_", "not _", "( _ )", "@ and _", "_ or @", "! or _ and @", "r:x and not _" }

BadCheckInputs ==
    { [kind |-> "bad", text |-> Fill(c, CheckText(q, l, r)), parts |-> <<c, q, l, r>>] :
        c \in Contexts, q \in {"'", "\""}, l \in BadLiterals, r \in {"x", "%(role.name)s"} }
    \cup { [kind |-> "bad", text |-> "", parts |-> <<"", "", "", "">>] }

ParseInputs ==
    CheckInputs \cup PrecedenceInputs \cup WrapInputs \cup WhitespaceInputs
    \cup BadCheckInputs

InitParse ==
    /\ rules = NewRules
    /\ checkers = NewCheckers
    /\ written = NoAttrs
    /\ registered = ("rule" :> RuleChecker) @@ ("role" :> RoleChecker)
    /\ last \in { [op |-> "input", input |-> i] : i \in ParseInputs }

Parse ==
    /\ last.op = "input"
    /\ last' = [op |-> "parse", input |-> last.input,
                out |-> parse_expression(last.input.text)]
    /\ UNCHANGED <<rules, checkers, written, registered>>

AddParsed ==
    /\ last.op = "parse"
    /\ LET res == add_rule(rules, "a", last.input.text)
       IN  /\ rules' = res.rules
           /\ written' = IF res.ok THEN Insert(written, "a", last.input.text) ELSE written
           /\ last' = [op |-> "add_rule", input |-> last.input, out |-> last.out,
                       ok |-> res.ok, rule_name |-> res.rule_name]
    /\ UNCHANGED <<checkers, registered>>

NextParse == Parse \/ AddParsed

SpecParse == InitParse /\ [][NextParse]_vars

\* The input of the latest parse was written from parts of the given kind.
Parsed(kind) == last.op = "parse" /\ last.input.kind = kind

\* C13: a text L:R, with L of lhs characters and R of rhs characters,
\* parses to the check of the identifier L against R, split at the first
\* colon; the texts 'L':R and "L":R parse to the check of the literal L
\* against R.
C13_AsStated ==
    Parsed("check") =>
        /\ last.out.ok
        /\ last.out.val =
              Check(IF last.input.parts[1] = ""
                    THEN Identifier(last.input.parts[2])
                    ELSE Literal(last.input.parts[2]),
                    last.input.parts[3])

\* The expression the grammar's precedence gives a combination of atoms.
FormAst(form, a, b, c) ==
    CASE form = "a and b or c"     -> Or(And(a, b), c)
      [] form = "(a and b) or c"   -> Or(And(a, b), c)
      [] form = "a and (b or c)"   -> And(a, Or(b, c))
      [] form = "a or b and c"     -> Or(a, And(b, c))
      [] form = "not a and b"      -> And(Not(a), b)
      [] form = "a and not b or c" -> Or(And(a, Not(b)), c)
      [] form = "a or b or c"      -> Or(Or(a, b), c)
      [] form = "a and b and c"    -> And(And(a, b), c)

LastFormAst ==
    FormAst(last.input.parts[1], AtomAst(last.input.parts[2]),
            AtomAst(last.input.parts[3]), AtomAst(last.input.parts[4]))

\* C11: `not` binds tighter than `and`, `and` tighter than `or`, and both
\* `and` and `or` associate to the left: for all atoms a, b and c each of
\* the combinations parses to the expression of its grouping, `a and b or
\* c` as `(a and b) or c` and not as `a and (b or c)`.
C11_AsStated ==
    Parsed("form") =>
        IF last.input.parts[1] = "a and (b or c)"
        THEN ~(last.out.ok /\ last.out.val =
                  FormAst("a and b or c", AtomAst(last.input.parts[2]),
                          AtomAst(last.input.parts[3]), AtomAst(last.input.parts[4])))
        ELSE last.out.ok /\ last.out.val = LastFormAst

\* The latest input without the parentheses it was written with.
Unwrapped == last.input.parts[2] \o last.input.parts[3] \o last.input.parts[4]

\* C12: a rule text that parses, with one pair of parentheses put around
\* it or around one of its sub-expressions without changing the grouping,
\* parses to the same expression, with whitespace inside the parentheses
\* or without.
C12_AsStated ==
    (Parsed("wrap") /\ parse_expression(Unwrapped).ok) =>
        /\ last.out.ok
        /\ last.out.val = parse_expression(Unwrapped).val

\* The rule text the latest input is a whitespace variant of.
Original == Fill(last.input.parts[1], last.input.parts[2])

SameAsOriginal ==
    /\ last.out.ok
    /\ last.out.val = parse_expression(Original).val

\* The marked places of the original are places between two of its tokens:
\* it parses as the skeleton does with one space at each.
MarkedBetweenTokens ==
    /\ parse_expression(Original).ok
    /\ parse_expression(Original) = parse_expression(Fill(last.input.parts[1], " "))

C15_BadTextsAreErrors ==
    /\ Parsed("bad") => (~last.out.ok /\ last.out = Failed)
    /\ (last.op = "add_rule" /\ last.input.kind = "bad") =>
          /\ ~last.ok
          /\ last.rule_name = "a"
          /\ rules = NewRules

C15_Witness ==
    /\ last.op = "add_rule"
    /\ last.input.text = "@ and 'foo bar':x"
    /\ ~last.ok
    /\ rules = NewRules

(***************************************************************************)
(* Rules that refer to rules: a policy with rule: checks is loaded once    *)
(* into the new RuleSet and its rules are evaluated.                       *)
(***************************************************************************)
CyclePolicies ==
    { "a" :> "rule:a",
      "a" :> "not rule:a",
      "a" :> "rule:a and !",
      "a" :> "@ or rule:a",
      "a" :> "! and rule:a",
      "a" :> "role:admin or rule:a",
      ("a" :> "rule:b") @@ ("b" :> "rule:a"),
      ("a" :> "rule:b") @@ ("b" :> "role:admin and rule:a"),
      ("a" :> "rule:b") @@ ("b" :> "did:x or not rule:a"),
      ("a" :> "rule:b") @@ ("b" :> "role:admin"),
      ("a" :> "role:admin and rule:c") @@ ("b" :> "@") }

LoadCyclePolicy ==
    /\ DOMAIN rules = {}
    /\ \E m \in CyclePolicies : \E order \in Orders(DOMAIN m) : CallAddRules(m, order)

NextCycle == AddChecker \/ LoadCyclePolicy \/ EvaluateLoaded

SpecCycle == Init /\ [][NextCycle]_vars

\* The rules an expression names in checks  rule:name : in all of them,
\* and in those that are evaluated whatever the other checks give (the
\* right operand of an `and` or `or` is skipped when the left one decides).
RECURSIVE RuleRefs(_, _)
RuleRefs(e, strict) ==
    IF e[1] = "Const" THEN {}
    ELSE IF e[1] = "Check"
         THEN IF e[2] = Identifier("rule") /\ ~attr_name_of(e[3]).some THEN {e[3]} ELSE {}
    ELSE IF e[1] = "Not" THEN RuleRefs(e[2], strict)
    ELSE RuleRefs(e[2], strict) \cup (IF strict THEN {} ELSE RuleRefs(e[3], strict))

\* The stored rules reached from the rules of `names` in at most n steps
\* of reference.
RECURSIVE ReachedFrom(_, _, _, _)
ReachedFrom(rs, names, strict, n) ==
    IF n = 0 THEN {}
    ELSE LET next == UNION { RuleRefs(rs[m], strict) : m \in names } \cap DOMAIN rs
         IN  next \cup ReachedFrom(rs, next, strict, n - 1)

\* The rule refers to itself, directly or through other rules.
RefersToItself(rs, name, strict) ==
    /\ name \in DOMAIN rs
    /\ name \in ReachedFrom(rs, {name}, strict, Cardinality(DOMAIN rs))

LastWithRuleChecker ==
    /\ last.op = "evaluate"
    /\ "rule" \in DOMAIN checkers
    /\ checkers["rule"] = RuleChecker

\* C16 as stated: with the built-in rule checker, the evaluation of a rule
\* that refers to itself through rule: checks never returns, whatever the
\* request.
C16_AsStated ==
    (LastWithRuleChecker /\ RefersToItself(rules, last.rule_name, FALSE)) =>
        Outcome(last.ret) = "none"

\* C16: with the built-in rule checker, the evaluation of a rule that
\* refers to itself through rule: checks none of which is in the right
\* operand of an `and` or `or` never returns, whatever the request; and an
\* evaluation that returns has entered no rule a second time.
C16_UnconditionalCycleNeverReturns ==
    /\ (LastWithRuleChecker /\ RefersToItself(rules, last.rule_name, TRUE)) =>
          Outcome(last.ret) = "none"
    /\ (last.op = "evaluate" /\ Outcome(last.ret) # "none") =>
          \A e \in last.ret.events : ~(e[1] = "rule" /\ e[3] = "reentered")

C16_Witness ==
    /\ LastWithRuleChecker
    /\ last.rule_name = "a"
    /\ DOMAIN rules = {"a", "b"}
    /\ rules["a"] = Check(Identifier("rule"), "b")
    /\ rules["b"] = Check(Identifier("rule"), "a")
    /\ Outcome(last.ret) = "none"

====
